---- MODULE Spec2Model ----
(***************************************************************************)
(* Model of the generic weighted-graph library of zn0k/goaoc: the          *)
(* adjacency store graphData (src/graph/graph.go) and its two variants     *)
(* DirectedGraph (src/directed.go) and UndirectedGraph                     *)
(* (src/undirected.go), and the searches BFS, BFSTo, Dijkstra and          *)
(* DijkstraTo of graphData (src/unnamed/part_002).                         *)
(*                                                                         *)
(* Go maps are reference values.  graphData.Adjacencies is a map from      *)
(* Node to an inner map from Node to weight, so the model keeps every      *)
(* inner map in a heap addressed by references: an outer map sends a node  *)
(* to the reference of its inner map.  Two stores that hold the same       *)
(* reference share that inner map, which is what Copy must avoid.          *)
(***************************************************************************)
EXTENDS Integers, Sequences, FiniteSets, TLC

\* ------------------------------------------------------------------ bounds
\* node keys are 1..MaxKey
MaxKey == 2
\* weights are 0..MaxWeight (0 is the float64 zero value)
MaxWeight == 1
\* the graphs searched have node keys 1..MaxPathKey
MaxPathKey == 3
\* and are built by at most MaxBuild calls of AddEdge and AddNode
MaxBuild == 3
\* longest slice handed to a ...From batch operation
MaxBatch == 2
\* budget of one behaviour: a call costs 1, a batch call 1 more per element
MaxOps == 3

\* ------------------------------------------------------------------ values
Keys == 1 .. MaxKey

Weights == 0 .. MaxWeight

\* func (g *graphData[K]) NewNode(obj K) Node[K]
NewNode(obj) == [ID |-> obj]

NodeSet == {NewNode(k) : k \in Keys}

\* the zero Node, used where an operation has no node argument
NoNode == [ID |-> 0]

\* type Edge[K] struct { u, v Node[K]; weight float64 }
NewEdge(u, v, w) == [u |-> u, v |-> v, weight |-> w]

EdgeSet == {NewEdge(u, v, w) : u \in NodeSet, v \in NodeSet, w \in Weights}

\* all slices over S of length 0..MaxBatch that are no longer than `room`
Batches(S, room) == UNION {[1 .. n -> S] : n \in {k \in 0 .. MaxBatch : k <= room}}

\* ------------------------------------------------------------------ Go maps
\* make(map[...]...) : the map with no keys
EmptyMap == [x \in {} |-> 0]

\* f[k] = x
MapSet(f, k, x) == [y \in (DOMAIN f) \cup {k} |-> IF y = k THEN x ELSE f[y]]

\* delete(f, k), a no-op when k is not a key
MapDelete(f, k) == [y \in (DOMAIN f) \ {k} |-> f[y]]

\* the address make() returns: one that no live map has
Fresh(m) ==
    CHOOSE r \in 1 .. (Cardinality(DOMAIN m) + 1) :
        /\ r \notin DOMAIN m
        /\ \A q \in 1 .. (r - 1) : q \in DOMAIN m

\* A store is a record [a |-> outer map Node -> reference,
\*                      m |-> heap reference -> inner map Node -> weight].
Store(a, m) == [a |-> a, m |-> m]

\* newGraphData: an empty outer map (the heap is shared by all stores)
newGraphData(m) == Store(EmptyMap, m)

\* the inner maps a store can reach
RefsOf(a) == {a[n] : n \in DOMAIN a}

\* what the garbage collector leaves: the inner maps some store still holds
Collect(m, live) == [r \in (DOMAIN m) \cap live |-> m[r]]

\* ------------------------------------------------------------------ graphData
\* func (g *graphData[K]) HasNode(u Node[K]) bool
HasNode(s, u) == u \in DOMAIN s.a

\* func (g *graphData[K]) HasEdge(u, v Node[K]) bool
HasEdge(s, u, v) ==
    IF u \notin DOMAIN s.a THEN FALSE ELSE v \in DOMAIN s.m[s.a[u]]

\* g.Adjacencies[u][v], read with the comma-ok form
WeightOf(s, u, v) == s.m[s.a[u]][v]

\* AddNode without the existence check: the node's adjacency is made anew
AddNodeUnchecked(s, n) ==
    LET r == Fresh(s.m)
    IN  Store(MapSet(s.a, n, r), MapSet(s.m, r, EmptyMap))

\* func (g *graphData[K]) AddNode(n Node[K])
AddNode(s, n) ==
    IF n \notin DOMAIN s.a
    THEN LET r == Fresh(s.m)
         IN  Store(MapSet(s.a, n, r), MapSet(s.m, r, EmptyMap))
    ELSE s

\* func (g *graphData[K]) AddNodesFrom(ns []Node[K])
RECURSIVE AddNodesFrom(_, _)
AddNodesFrom(s, ns) ==
    IF ns = <<>> THEN s ELSE AddNodesFrom(AddNode(s, Head(ns)), Tail(ns))

\* a write that keeps the weight of an entry that is already there
SetEntryFirstWins(s, u, v, w) ==
    IF v \in DOMAIN s.m[s.a[u]] THEN s
    ELSE Store(s.a, MapSet(s.m, s.a[u], MapSet(s.m[s.a[u]], v, w)))

\* g.Adjacencies[u][v] = w, for u a key of g.Adjacencies
SetEntry(s, u, v, w) ==
    Store(s.a, MapSet(s.m, s.a[u], MapSet(s.m[s.a[u]], v, w)))

\* a delete that first creates the record of a source node that is missing
DeleteEntryCreating(s, u, v) ==
    LET r == Fresh(s.m)
        s1 == IF u \in DOMAIN s.a THEN s
              ELSE Store(MapSet(s.a, u, r), MapSet(s.m, r, EmptyMap))
    IN  Store(s1.a, MapSet(s1.m, s1.a[u], MapDelete(s1.m[s1.a[u]], v)))

\* delete(g.Adjacencies[u], v): g.Adjacencies[u] is nil when u is no key,
\* and delete on a nil map does nothing
DeleteEntry(s, u, v) ==
    IF u \in DOMAIN s.a
    THEN Store(s.a, MapSet(s.m, s.a[u], MapDelete(s.m[s.a[u]], v)))
    ELSE s

\* RemoveNode that drops the node's record and leaves the entries pointing to it
RemoveNodeRecordOnly(s, n) == Store(MapDelete(s.a, n), s.m)

\* func (g *graphData[K]) RemoveNode(n Node[K])
RemoveNode(s, n) ==
    LET \* for node := range g.Adjacencies { delete(g.Adjacencies[node], n) }
        scrubbed == [r \in DOMAIN s.m |->
                        IF r \in RefsOf(s.a) THEN MapDelete(s.m[r], n) ELSE s.m[r]]
    IN  \* delete(g.Adjacencies, n)
        Store(MapDelete(s.a, n), scrubbed)

\* func (g *graphData[K]) RemoveNodesFrom(ns []Node[K])
RECURSIVE RemoveNodesFrom(_, _)
RemoveNodesFrom(s, ns) ==
    IF ns = <<>> THEN s ELSE RemoveNodesFrom(RemoveNode(s, Head(ns)), Tail(ns))

\* func (g *graphData[K]) Nodes() []Node[K]
Nodes(s) == DOMAIN s.a

\* func (g *graphData[K]) Edges() []Edge[K]: one Edge per stored entry
Edges(s) ==
    UNION {{NewEdge(u, v, s.m[s.a[u]][v]) : v \in DOMAIN s.m[s.a[u]]} : u \in DOMAIN s.a}

\* func (g *graphData[K]) Clear()
Clear(s) == Store(EmptyMap, s.m)

\* func (g *graphData[K]) NumberOfNodes() int
NumberOfNodes(s) == Cardinality(Nodes(s))

\* the edges counted once per pair of endpoints, whichever way they point
NumberOfEdgesUnordered(s) ==
    Cardinality({{e.u, e.v} : e \in Edges(s)})

\* func (g *graphData[K]) NumberOfEdges() int
NumberOfEdges(s) == Cardinality(Edges(s))

\* func (g *graphData[K]) Successors(n Node[K]) []Node[K]
Successors(s, n) == IF n \in DOMAIN s.a THEN DOMAIN s.m[s.a[n]] ELSE {}

\* func (g *graphData[K]) Predecessors(n Node[K]) []Node[K]
Predecessors(s, n) == {node \in DOMAIN s.a : n \in DOMAIN s.m[s.a[node]]}

\* func (g *graphData[K]) InDegree(n Node[K]) int
InDegree(s, n) == Cardinality(Predecessors(s, n))

\* func (g *graphData[K]) OutDegree(n Node[K]) int
OutDegree(s, n) == Cardinality(Successors(s, n))

\* the degree an UndirectedGraph reports: the entries of n's own map only
DegreeOut(s, n) == OutDegree(s, n)

\* the degree as the number of distinct nodes next to n
DegreeDistinct(s, n) == Cardinality(Successors(s, n) \cup Predecessors(s, n))

\* func (g *graphData[K]) Degree(n Node[K]) int
Degree(s, n) == InDegree(s, n) + OutDegree(s, n)

\* the elements of a slice
Range(xs) == {xs[i] : i \in 1 .. Len(xs)}

\* a slice holding the elements of S once each, in the order a map range took
RECURSIVE SliceOf(_)
SliceOf(S) ==
    IF S = {} THEN <<>>
    ELSE LET x == CHOOSE y \in S : TRUE IN <<x>> \o SliceOf(S \ {x})

\* the slice Successors returns: slices.Collect(maps.Keys(g.Adjacencies[n]))
SuccessorsSlice(s, n) == SliceOf(Successors(s, n))

\* the slice Predecessors returns: one append per node that holds an entry to n
PredecessorsSlice(s, n) == SliceOf(Predecessors(s, n))

\* The store of src/graph.go has the same maps and the same mutators and
\* returns iterators.  What Predecessors(n) yields there, collected: for every
\* node of `nodes` whose inner map has the key n, the key `neigh` found, which
\* is n.  The order of the range over the nodes does not show in the result.
RECURSIVE YieldPredecessors(_, _, _)
YieldPredecessors(s, n, nodes) ==
    IF nodes = <<>> THEN <<>>
    ELSE LET node == Head(nodes)
             yielded == SliceOf({neigh \in DOMAIN s.m[s.a[node]] : neigh = n})
         IN  yielded \o YieldPredecessors(s, n, Tail(nodes))

\* slices.Collect(g.Predecessors(n)) on the store of src/graph.go
PredecessorsSeq(s, n) == YieldPredecessors(s, n, SliceOf(DOMAIN s.a))

\* func (g *graphData[K]) Neighbors(n Node[K]) []Node[K]
Neighbors(s, n) == SuccessorsSlice(s, n) \o PredecessorsSlice(s, n)

\* func (g *graphData[K]) Copy() *graphData[K]
\* CopyFrom is the loop "for n, neighbors := range g.Adjacencies" over the
\* nodes still to visit; the order of a Go map range does not change the
\* result beyond the addresses of the new inner maps.
RECURSIVE CopyFrom(_, _, _)
CopyFrom(s, todo, newG) ==
    IF todo = {} THEN newG
    ELSE LET n == CHOOSE x \in todo : TRUE
             neighbors == s.m[s.a[n]]
             \* getOrCreate(n.ID)
             newNode == NewNode(n.ID)
             \* newG.Adjacencies[newNode] = make(map[Node[K]]float64)
             withNode == AddNode(newG, newNode)
             r == withNode.a[newNode]
             \* newG.Adjacencies[newNode][getOrCreate(nei.ID)] = weight
             filled == [nn \in {NewNode(nei.ID) : nei \in DOMAIN neighbors} |->
                           neighbors[CHOOSE nei \in DOMAIN neighbors : NewNode(nei.ID) = nn]]
         IN  CopyFrom(s, todo \ {n},
                      Store(withNode.a,
                            MapSet(withNode.m, r,
                                   [x \in (DOMAIN withNode.m[r]) \cup (DOMAIN filled) |->
                                       IF x \in DOMAIN filled THEN filled[x]
                                       ELSE withNode.m[r][x]])))

\* a copy that visits only the nodes that have outgoing entries
CopyNoIsolated(s) ==
    CopyFrom(s, {n \in DOMAIN s.a : DOMAIN s.m[s.a[n]] # {}}, newGraphData(s.m))

\* a copy with a new outer map that holds the inner maps of the source
CopyShallow(s) == Store(s.a, s.m)

Copy(s) == CopyFrom(s, DOMAIN s.a, newGraphData(s.m))

\* ------------------------------------------------------------------ DirectedGraph
\* AddEdge that creates the source node only
DirectedAddEdgeSourceOnly(s, u, v, w) ==
    LET s1 == IF u \notin DOMAIN s.a THEN AddNode(s, u) ELSE s
    IN  SetEntry(s1, u, v, w)

\* AddEdge that writes both directions, as the undirected variant does
DirectedAddEdgeBothWays(s, u, v, w) ==
    LET s1 == IF u \notin DOMAIN s.a THEN AddNode(s, u) ELSE s
        s2 == IF v \notin DOMAIN s1.a THEN AddNode(s1, v) ELSE s1
    IN  SetEntry(SetEntry(s2, u, v, w), v, u, w)

\* func (g *DirectedGraph[K]) AddEdge(u, v Node[K], w float64)
DirectedAddEdge(s, u, v, w) ==
    LET s1 == IF u \notin DOMAIN s.a THEN AddNode(s, u) ELSE s
        s2 == IF v \notin DOMAIN s1.a THEN AddNode(s1, v) ELSE s1
    IN  SetEntry(s2, u, v, w)

\* func (g *DirectedGraph[K]) RemoveEdge(u, v Node[K])
DirectedRemoveEdge(s, u, v) == DeleteEntry(s, u, v)

\* func (g *DirectedGraph[K]) RemoveEdgesFrom(es []Edge[K])
RECURSIVE DirectedRemoveEdgesFrom(_, _)
DirectedRemoveEdgesFrom(s, es) ==
    IF es = <<>> THEN s
    ELSE DirectedRemoveEdgesFrom(DeleteEntry(s, Head(es).u, Head(es).v), Tail(es))

\* ------------------------------------------------------------------ UndirectedGraph
\* AddEdge that forgets the write of the reverse entry
UndirectedAddEdgeOneWay(s, u, v, w) ==
    LET s1 == IF u \notin DOMAIN s.a THEN AddNode(s, u) ELSE s
        s2 == IF v \notin DOMAIN s1.a THEN AddNode(s1, v) ELSE s1
    IN  SetEntry(s2, u, v, w)

\* func (g *UndirectedGraph[K]) AddEdge(u, v Node[K], w float64)
UndirectedAddEdge(s, u, v, w) ==
    LET s1 == IF u \notin DOMAIN s.a THEN AddNode(s, u) ELSE s
        s2 == IF v \notin DOMAIN s1.a THEN AddNode(s1, v) ELSE s1
    IN  SetEntry(SetEntry(s2, u, v, w), v, u, w)

\* func (g *UndirectedGraph[K]) RemoveEdge(u, v Node[K])
UndirectedRemoveEdge(s, u, v) == DeleteEntry(DeleteEntry(s, u, v), v, u)

\* func (g *UndirectedGraph[K]) RemoveEdgesFrom(es []Edge[K])
RECURSIVE UndirectedRemoveEdgesFrom(_, _)
UndirectedRemoveEdgesFrom(s, es) ==
    IF es = <<>> THEN s
    ELSE UndirectedRemoveEdgesFrom(
             DeleteEntry(DeleteEntry(s, Head(es).u, Head(es).v), Head(es).v, Head(es).u),
             Tail(es))

\* func (g *UndirectedGraph[K]) Neighbors(n Node[K]) []Node[K]
UndirectedNeighbors(s, n) == Successors(s, n)

\* the Neighbors of the embedded graphData, not overridden
UndirectedNeighborsBoth(s, n) == Neighbors(s, n)

\* the slice that Neighbors of an UndirectedGraph returns
UndirectedNeighborsSlice(s, n) == SuccessorsSlice(s, n)

\* func (g *UndirectedGraph[K]) Predecessors(n Node[K]) []Node[K]
UndirectedPredecessors(s, n) == SuccessorsSlice(s, n)

\* the degree of the embedded graphData, not overridden
UndirectedDegreeSum(s, n) == Degree(s, n)

\* func (g *UndirectedGraph[K]) Degree(n Node[K]) int
UndirectedDegree(s, n) == Cardinality(UndirectedNeighbors(s, n))

\* ------------------------------------------------------------------ dispatch
\* the method set of the variant the caller constructed
AddEdge(k, s, u, v, w) ==
    IF k = "directed" THEN DirectedAddEdge(s, u, v, w) ELSE UndirectedAddEdge(s, u, v, w)

RemoveEdge(k, s, u, v) ==
    IF k = "directed" THEN DirectedRemoveEdge(s, u, v) ELSE UndirectedRemoveEdge(s, u, v)

\* func (g *DirectedGraph[K]) AddEdgesFrom / func (g *UndirectedGraph[K]) AddEdgesFrom
RECURSIVE AddEdgesFrom(_, _, _)
AddEdgesFrom(k, s, es) ==
    IF es = <<>> THEN s
    ELSE AddEdgesFrom(k, AddEdge(k, s, Head(es).u, Head(es).v, Head(es).weight), Tail(es))

RemoveEdgesFrom(k, s, es) ==
    IF k = "directed" THEN DirectedRemoveEdgesFrom(s, es)
    ELSE UndirectedRemoveEdgesFrom(s, es)

\* ------------------------------------------------------------------ state
VARIABLES
    kind,    \* "directed" or "undirected": the variant the caller constructed
    g,       \* g.Adjacencies of that graph: Node -> reference of its inner map
    h,       \* h.Adjacencies of the store h := g.Copy() returned last
    copied,  \* whether Copy has been called, so that h is not nil
    heap,    \* the inner maps: reference -> (Node -> weight)
    last,    \* the call made last (history)
    detail,  \* whether `last` keeps the arguments of the call (history)
    steps,   \* budget spent so far (see MaxOps)
    run      \* the path-finding call in progress: its locals and its result,
             \* and of its past: how often each node was enqueued, the rounds
             \* of the loop so far, and the distance each node was extracted
             \* at next to the least distance the queue then held (history)

vars == <<kind, g, h, copied, heap, last, detail, steps, run>>

G == Store(g, heap)

H == Store(h, heap)

\* the adjacency state of a store as a value: Node -> (Node -> weight)
View(s) == [n \in DOMAIN s.a |-> s.m[s.a[n]]]

\* The record of a call: its name, the store it was made on, its arguments
\* (u, v, w of a single call, xs of a batch call), whether it met what it
\* names already there (hit), and NumberOfEdges of that store before it.
Op(name, on, u, v, w, xs, hit, edges) ==
    IF detail
    THEN [op |-> name, on |-> on, u |-> u, v |-> v, w |-> w, xs |-> xs,
          hit |-> hit, edges |-> edges]
    ELSE [op |-> name, on |-> on, u |-> NoNode, v |-> NoNode, w |-> 0, xs |-> <<>>,
          hit |-> hit, edges |-> 0]

NoCall == [op |-> "New", on |-> "g", u |-> NoNode, v |-> NoNode, w |-> 0, xs |-> <<>>,
           hit |-> FALSE, edges |-> 0]

\* what a path-finding call returns: the path, its length and its cost
Result(path, length, cost) == [path |-> path, length |-> length, cost |-> cost]

\* no path-finding call has been made
NoRun ==
    [pc |-> "idle", alg |-> "none", start |-> NoNode, target |-> NoNode,
     queue |-> <<>>, visited |-> {}, distances |-> EmptyMap, previous |-> EmptyMap,
     ret |-> Result(<<>>, 0, 0),
     enqueued |-> EmptyMap, rounds |-> 0, extracted |-> EmptyMap,
     order |-> <<>>]

\* NewDirectedGraph / NewUndirectedGraph
Init ==
    /\ kind \in {"directed", "undirected"}
    /\ g = EmptyMap
    /\ h = EmptyMap
    /\ copied = FALSE
    /\ heap = EmptyMap
    /\ last = NoCall
    /\ detail = TRUE
    /\ steps = 0
    /\ run = NoRun

\* the caller's graph becomes s at a cost of `cost`
StepG(s, cost, op) ==
    /\ steps + cost <= MaxOps
    /\ g' = s.a
    /\ heap' = Collect(s.m, RefsOf(s.a) \cup RefsOf(h))
    /\ last' = op
    /\ steps' = steps + cost
    /\ UNCHANGED <<kind, h, copied, detail, run>>

\* the copy becomes s at a cost of `cost`
StepH(s, cost, op) ==
    /\ copied
    /\ steps + cost <= MaxOps
    /\ h' = s.a
    /\ heap' = Collect(s.m, RefsOf(g) \cup RefsOf(s.a))
    /\ last' = op
    /\ steps' = steps + cost
    /\ UNCHANGED <<kind, g, copied, detail, run>>

\* the budget a batch call takes: the call and one per element
Cost(xs) == 1 + Len(xs)

DoAddNode ==
    \E n \in NodeSet :
        StepG(AddNode(G, n), 1,
              Op("AddNode", "g", n, NoNode, 0, <<>>, HasNode(G, n), NumberOfEdges(G)))

DoAddEdge ==
    \E u \in NodeSet, v \in NodeSet, w \in Weights :
        StepG(AddEdge(kind, G, u, v, w), 1,
              Op("AddEdge", "g", u, v, w, <<>>, HasEdge(G, u, v), NumberOfEdges(G)))

DoRemoveNode ==
    \E n \in NodeSet :
        StepG(RemoveNode(G, n), 1,
              Op("RemoveNode", "g", n, NoNode, 0, <<>>, HasNode(G, n), NumberOfEdges(G)))

DoRemoveEdge ==
    \E u \in NodeSet, v \in NodeSet :
        StepG(RemoveEdge(kind, G, u, v), 1,
              Op("RemoveEdge", "g", u, v, 0, <<>>, HasEdge(G, u, v), NumberOfEdges(G)))

DoClear ==
    StepG(Clear(G), 1,
          Op("Clear", "g", NoNode, NoNode, 0, <<>>, g # EmptyMap, NumberOfEdges(G)))

DoAddNodesFrom ==
    \E ns \in Batches(NodeSet, MaxOps - steps - 1) :
        StepG(AddNodesFrom(G, ns), Cost(ns),
              Op("AddNodesFrom", "g", NoNode, NoNode, 0, ns,
                 \E i \in 1 .. Len(ns) :
                     HasNode(G, ns[i]) \/ \E j \in 1 .. (i - 1) : ns[j] = ns[i],
                 NumberOfEdges(G)))

DoAddEdgesFrom ==
    \E es \in Batches(EdgeSet, MaxOps - steps - 1) :
        StepG(AddEdgesFrom(kind, G, es), Cost(es),
              Op("AddEdgesFrom", "g", NoNode, NoNode, 0, es,
                 \E i \in 1 .. Len(es) : HasEdge(G, es[i].u, es[i].v),
                 NumberOfEdges(G)))

DoRemoveNodesFrom ==
    \E ns \in Batches(NodeSet, MaxOps - steps - 1) :
        StepG(RemoveNodesFrom(G, ns), Cost(ns),
              Op("RemoveNodesFrom", "g", NoNode, NoNode, 0, ns,
                 \E i \in 1 .. Len(ns) : HasNode(G, ns[i]),
                 NumberOfEdges(G)))

DoRemoveEdgesFrom ==
    \E es \in Batches(EdgeSet, MaxOps - steps - 1) :
        StepG(RemoveEdgesFrom(kind, G, es), Cost(es),
              Op("RemoveEdgesFrom", "g", NoNode, NoNode, 0, es,
                 \E i \in 1 .. Len(es) : HasEdge(G, es[i].u, es[i].v),
                 NumberOfEdges(G)))

\* the operations of the Graph interface on the caller's graph
Next ==
    \/ DoAddNode
    \/ DoAddEdge
    \/ DoRemoveNode
    \/ DoRemoveEdge
    \/ DoClear
    \/ DoAddNodesFrom
    \/ DoAddEdgesFrom
    \/ DoRemoveNodesFrom
    \/ DoRemoveEdgesFrom

Spec == Init /\ [][Next]_vars

\* ------------------------------------------------------------------ Copy
\* h := g.Copy()
DoCopy ==
    LET s == Copy(G)
    IN  /\ steps + 1 <= MaxOps
        /\ h' = s.a
        /\ copied' = TRUE
        /\ heap' = Collect(s.m, RefsOf(g) \cup RefsOf(s.a))
        /\ last' = Op("Copy", "h", NoNode, NoNode, 0, <<>>, g # EmptyMap, NumberOfEdges(G))
        /\ steps' = steps + 1
        /\ UNCHANGED <<kind, g, detail, run>>

\* g.Adjacencies[u][v] = w, written by a caller inside the package; the inner
\* map of a node that is no key is nil, and a write to it panics
DoSetWeight ==
    \E u \in DOMAIN g, v \in NodeSet, w \in Weights :
        StepG(SetEntry(G, u, v, w), 1,
              Op("SetWeight", "g", u, v, w, <<>>, HasEdge(G, u, v), NumberOfEdges(G)))

\* the same write on the copy
HSetWeight ==
    \E u \in DOMAIN h, v \in NodeSet, w \in Weights :
        StepH(SetEntry(H, u, v, w), 1,
              Op("SetWeight", "h", u, v, w, <<>>, HasEdge(H, u, v), NumberOfEdges(H)))

\* the copy is a *graphData: it has the methods of graphData only
HAddNode ==
    \E n \in NodeSet :
        StepH(AddNode(H, n), 1,
              Op("AddNode", "h", n, NoNode, 0, <<>>, HasNode(H, n), NumberOfEdges(H)))

HRemoveNode ==
    \E n \in NodeSet :
        StepH(RemoveNode(H, n), 1,
              Op("RemoveNode", "h", n, NoNode, 0, <<>>, HasNode(H, n), NumberOfEdges(H)))

HClear ==
    StepH(Clear(H), 1,
          Op("Clear", "h", NoNode, NoNode, 0, <<>>, h # EmptyMap, NumberOfEdges(H)))

HAddNodesFrom ==
    \E ns \in Batches(NodeSet, MaxOps - steps - 1) :
        StepH(AddNodesFrom(H, ns), Cost(ns),
              Op("AddNodesFrom", "h", NoNode, NoNode, 0, ns,
                 \E i \in 1 .. Len(ns) :
                     HasNode(H, ns[i]) \/ \E j \in 1 .. (i - 1) : ns[j] = ns[i],
                 NumberOfEdges(H)))

HRemoveNodesFrom ==
    \E ns \in Batches(NodeSet, MaxOps - steps - 1) :
        StepH(RemoveNodesFrom(H, ns), Cost(ns),
              Op("RemoveNodesFrom", "h", NoNode, NoNode, 0, ns,
                 \E i \in 1 .. Len(ns) : HasNode(H, ns[i]),
                 NumberOfEdges(H)))

\* a caller that copies the graph and goes on changing either store
NextCopy ==
    \/ Next
    \/ DoCopy
    \/ DoSetWeight
    \/ HSetWeight
    \/ HAddNode
    \/ HRemoveNode
    \/ HClear
    \/ HAddNodesFrom
    \/ HRemoveNodesFrom

\* as Init, with `last` keeping the name of the call only
InitCopy ==
    /\ kind \in {"directed", "undirected"}
    /\ g = EmptyMap
    /\ h = EmptyMap
    /\ copied = FALSE
    /\ heap = EmptyMap
    /\ last = NoCall
    /\ detail = FALSE
    /\ steps = 0
    /\ run = NoRun

SpecCopy == InitCopy /\ [][NextCopy]_vars

\* ------------------------------------------------------------------ path finding
\* BFS, BFSTo, Dijkstra and DijkstraTo of graphData (src/unnamed/part_002),
\* one action per iteration of the outer loop of a search.  A Go map range
\* takes its keys in any order, so each range draws an order.

PathKeys == 1 .. MaxPathKey

PathNodes == {NewNode(k) : k \in PathKeys}

\* math.Inf(1): above the cost of every path without a repeated node, and
\* unchanged by the addition of a weight
Inf == (MaxPathKey + 1) * (MaxWeight + 1)

\* float64 addition
Plus(a, b) == IF a = Inf \/ b = Inf THEN Inf ELSE a + b

\* f[k] of a Go map: the zero value when k is not a key
At(f, k, zero) == IF k \in DOMAIN f THEN f[k] ELSE zero

\* the orders in which a map range can take the keys S
Orders(S) ==
    {f \in [1 .. Cardinality(S) -> S] :
        \A i \in 1 .. Cardinality(S), j \in 1 .. Cardinality(S) : f[i] = f[j] => i = j}

\* a read that makes the inner map of n when n has none
AdjacencyCreating(s, n) ==
    IF n \in DOMAIN s.a THEN [s |-> s, m |-> s.m[s.a[n]]]
    ELSE [s |-> AddNodeUnchecked(s, n), m |-> EmptyMap]

\* g.Adjacencies[n] read: the inner map of n, the nil map when n is not a
\* node; the store is left as it was
Adjacency(s, n) ==
    [s |-> s, m |-> IF n \in DOMAIN s.a THEN s.m[s.a[n]] ELSE EmptyMap]

\* BFS up to its loop: start is visited, at distance 0, its own predecessor,
\* and alone in the queue
BFSStart(start) ==
    [NoRun EXCEPT !.pc = "BFS", !.alg = "BFS", !.start = start,
                  !.queue = <<start>>, !.visited = {start},
                  !.enqueued = MapSet(EmptyMap, start, 1),
                  !.distances = MapSet(EmptyMap, start, 0),
                  !.previous = MapSet(EmptyMap, start, start)]

\* a neighbor is not marked as visited
BFSVisitUnmarked(r, current, neighbor) ==
    IF neighbor \notin r.visited
    THEN [r EXCEPT !.previous = MapSet(@, neighbor, current),
                   !.distances = MapSet(@, neighbor, Plus(r.distances[current], 1)),
                   !.queue = Append(@, neighbor)]
    ELSE r

\* a neighbor takes the distance of the node it was reached from
BFSVisitSameDistance(r, current, neighbor) ==
    IF neighbor \notin r.visited
    THEN [r EXCEPT !.visited = @ \cup {neighbor},
                   !.previous = MapSet(@, neighbor, current),
                   !.distances = MapSet(@, neighbor, r.distances[current]),
                   !.queue = Append(@, neighbor)]
    ELSE r

\* the predecessor and the distance of a neighbor are written at every visit
BFSVisitOverwrite(r, current, neighbor) ==
    [r EXCEPT !.visited = @ \cup {neighbor},
              !.previous = MapSet(@, neighbor, current),
              !.distances = MapSet(@, neighbor, Plus(r.distances[current], 1)),
              !.queue = IF neighbor \in r.visited THEN @ ELSE Append(@, neighbor)]

\* the body of "for neighbor := range g.Adjacencies[current]" in BFS
BFSVisit(r, current, neighbor) ==
    IF neighbor \notin r.visited
    THEN [r EXCEPT !.visited = @ \cup {neighbor},
                   !.previous = MapSet(@, neighbor, current),
                   !.distances = MapSet(@, neighbor, Plus(r.distances[current], 1)),
                   !.queue = Append(@, neighbor)]
    ELSE r

\* that range over the neighbors in the order ns
RECURSIVE BFSRange(_, _, _)
BFSRange(r, current, ns) ==
    IF ns = <<>> THEN r
    ELSE BFSRange(BFSVisit(r, current, Head(ns)), current, Tail(ns))

\* the nodes appended to a queue that held `before` and holds `after`, added
\* to the count of how often each was enqueued
RECURSIVE Enqueued(_, _)
Enqueued(count, added) ==
    IF added = <<>> THEN count
    ELSE Enqueued(MapSet(count, Head(added), At(count, Head(added), 0) + 1), Tail(added))

\* one round of "for len(queue) > 0" in BFS: the head of the queue is taken
\* off and its inner map m ranged over in the order ns
BFSRound(r, m, ns) ==
    LET current == Head(r.queue)
        after == BFSRange([r EXCEPT !.queue = Tail(@)], current, ns)
    IN  [after EXCEPT !.rounds = @ + 1,
                      !.order = Append(@, current),
                      !.enqueued = Enqueued(@, SubSeq(after.queue, Len(r.queue),
                                                      Len(after.queue)))]

\* Dijkstra up to its loop, start without a predecessor
DijkstraStartNoPrevious(s, start, order) ==
    [NoRun EXCEPT !.pc = "Dijkstra", !.alg = "Dijkstra", !.start = start,
                  !.queue = order,
                  !.distances = MapSet([n \in DOMAIN s.a |-> Inf], start, 0)]

\* Dijkstra up to its loop: every node of the graph is queued, in the order
\* the range over g.Adjacencies took, at distance +Inf; start is at distance
\* 0 and its own predecessor
DijkstraStart(s, start, order) ==
    [NoRun EXCEPT !.pc = "Dijkstra", !.alg = "Dijkstra", !.start = start,
                  !.queue = order,
                  !.distances = MapSet([n \in DOMAIN s.a |-> Inf], start, 0),
                  !.previous = MapSet(EmptyMap, start, start)]

\* the node at the end of the queue, whatever its distance
MinIndexLast(queue, distances, i, min_index, min_distance) ==
    IF queue = <<>> THEN 1 ELSE Len(queue)

\* the node at the head of the queue, whatever its distance
MinIndexHead(queue, distances, i, min_index, min_distance) == 1

\* the scan without "min_distance = distances[queue[i]]": the index of the
\* last node of the queue whose distance is below +Inf
RECURSIVE MinIndexKeepBound(_, _, _, _, _)
MinIndexKeepBound(queue, distances, i, min_index, min_distance) ==
    IF i > Len(queue) THEN min_index
    ELSE IF At(distances, queue[i], 0) < min_distance
         THEN MinIndexKeepBound(queue, distances, i + 1, i, min_distance)
         ELSE MinIndexKeepBound(queue, distances, i + 1, min_index, min_distance)

\* "for i := range queue": the index of the first node of the queue whose
\* distance is below that of all nodes before it, the first index when no
\* distance is below +Inf
RECURSIVE MinIndex(_, _, _, _, _)
MinIndex(queue, distances, i, min_index, min_distance) ==
    IF i > Len(queue) THEN min_index
    ELSE IF At(distances, queue[i], 0) < min_distance
         THEN MinIndex(queue, distances, i + 1, i, At(distances, queue[i], 0))
         ELSE MinIndex(queue, distances, i + 1, min_index, min_distance)

\* slices.Delete(queue, i, i+1)
Delete(queue, i) == SubSeq(queue, 1, i - 1) \o SubSeq(queue, i + 1, Len(queue))

\* a cheaper way to neighbor lowers its distance and keeps its predecessor
RelaxDistanceOnly(r, current, neighbor, weight) ==
    LET alternative == Plus(r.distances[current], weight)
    IN  IF alternative < At(r.distances, neighbor, 0)
        THEN [r EXCEPT !.distances = MapSet(@, neighbor, alternative),
                       !.previous = IF neighbor \in DOMAIN @ THEN @
                                    ELSE MapSet(@, neighbor, current)]
        ELSE r

\* a way to neighbor that is no cheaper replaces the one known
RelaxOrEqual(r, current, neighbor, weight) ==
    LET alternative == Plus(r.distances[current], weight)
    IN  IF alternative <= At(r.distances, neighbor, 0)
        THEN [r EXCEPT !.distances = MapSet(@, neighbor, alternative),
                       !.previous = MapSet(@, neighbor, current)]
        ELSE r

\* the body of "for neighbor, weight := range g.Adjacencies[current]" in
\* Dijkstra
Relax(r, current, neighbor, weight) ==
    LET alternative == Plus(r.distances[current], weight)
    IN  IF alternative < At(r.distances, neighbor, 0)
        THEN [r EXCEPT !.distances = MapSet(@, neighbor, alternative),
                       !.previous = MapSet(@, neighbor, current)]
        ELSE r

\* that range over the inner map m in the order ns
RECURSIVE DijkstraRange(_, _, _, _)
DijkstraRange(r, current, m, ns) ==
    IF ns = <<>> THEN r
    ELSE DijkstraRange(Relax(r, current, Head(ns), m[Head(ns)]), current, m, Tail(ns))

\* the least distance of a node in the queue
Least(queue, distances) ==
    CHOOSE d \in {At(distances, queue[i], 0) : i \in 1 .. Len(queue)} :
        \A i \in 1 .. Len(queue) : d <= At(distances, queue[i], 0)

\* one round of "for len(queue) > 0" in Dijkstra: the node the scan found is
\* taken out of the queue and its inner map m ranged over in the order ns
DijkstraRound(r, m, ns) ==
    LET min_index == MinIndex(r.queue, r.distances, 1, 1, Inf)
        current == r.queue[min_index]
        after == DijkstraRange([r EXCEPT !.queue = Delete(@, min_index)], current, m, ns)
    IN  [after EXCEPT !.rounds = @ + 1,
                      !.order = Append(@, current),
                      !.extracted = MapSet(@, current,
                                           [distance |-> r.distances[current],
                                            least |-> Least(r.queue, r.distances)])]

\* slices.Reverse(path)
RECURSIVE Reverse(_)
Reverse(path) ==
    IF path = <<>> THEN <<>> ELSE Append(Reverse(Tail(path)), Head(path))

\* "for current != start": the path from target back along the predecessors,
\* <<>> when that loop does not end.  The loop sees only the keys of
\* `previous` and the zero Node, so it does not end once it has run for more
\* rounds (`more` counts them down) than there are such nodes.
RECURSIVE Walk(_, _, _, _, _)
Walk(previous, start, current, path, more) ==
    IF current = start THEN path
    ELSE IF more = 0 THEN <<>>
    ELSE LET step == At(previous, current, NoNode)
         IN  Walk(previous, start, step, Append(path, step), more - 1)

\* the path from a node to itself holds no node
SelfPathEmpty(start) == Result(<<>>, 0, 0)

\* return Path[K]{start}, 1, 0.0
SelfPath(start) == Result(<<start>>, 1, 0)

\* return Path[K]{}, 0, math.Inf(1)
Unreachable == Result(<<>>, 0, Inf)

\* the target is looked up in the distances
PathToByDistance(r, target) ==
    IF target \notin DOMAIN r.distances
    THEN [r EXCEPT !.pc = "returned", !.target = target, !.ret = Unreachable]
    ELSE LET path == Walk(r.previous, r.start, target, <<target>>,
                          Cardinality(DOMAIN r.previous) + 1)
         IN  IF path = <<>>
             THEN [r EXCEPT !.pc = "diverged", !.target = target]
             ELSE [r EXCEPT !.pc = "returned", !.target = target,
                            !.ret = Result(Reverse(path), Len(path),
                                           At(r.distances, target, 0))]

\* BFSTo and DijkstraTo once the search has returned distances and previous:
\* the sentinel when target has no predecessor, else the path walked back
\* from target, its length and distances[target]
PathTo(r, target) ==
    IF target \notin DOMAIN r.previous
    THEN [r EXCEPT !.pc = "returned", !.target = target, !.ret = Unreachable]
    ELSE LET path == Walk(r.previous, r.start, target, <<target>>,
                          Cardinality(DOMAIN r.previous) + 1)
         IN  IF path = <<>>
             THEN [r EXCEPT !.pc = "diverged", !.target = target]
             ELSE [r EXCEPT !.pc = "returned", !.target = target,
                            !.ret = Result(Reverse(path), Len(path),
                                           At(r.distances, target, 0))]

\* a weight is any float64: the graphs searched take theirs, negative ones
\* too, from -MaxWeight..MaxWeight
PathWeights == (0 - MaxWeight) .. MaxWeight

PathEdges == {NewEdge(u, v, w) : u \in PathNodes, v \in PathNodes, w \in PathWeights}

\* the graph searched: a new graph of either variant after AddEdgesFrom(es)
\* and AddNodesFrom(ns), at most MaxBuild edges and nodes in all.  A batch
\* lists its elements once each and in one order, that of SliceOf: the other
\* orders build the same graphs.
InitPath ==
    /\ kind \in {"directed", "undirected"}
    /\ \E n \in 0 .. MaxBuild, k \in 0 .. MaxBuild :
           /\ n + k <= MaxBuild
           /\ \E es \in [1 .. n -> PathEdges], ns \in [1 .. k -> PathNodes] :
                  /\ es = SliceOf(Range(es))
                  /\ ns = SliceOf(Range(ns))
                  /\ LET s == AddNodesFrom(
                                  AddEdgesFrom(kind, newGraphData(EmptyMap), es), ns)
                     IN  g = s.a /\ heap = s.m
    /\ h = EmptyMap
    /\ copied = FALSE
    /\ last = NoCall
    /\ detail = FALSE
    /\ steps = 0
    /\ run = NoRun

\* the call in progress becomes r, the caller's graph s
StepRun(r, s) ==
    /\ run' = r
    /\ g' = s.a
    /\ heap' = s.m
    /\ UNCHANGED <<kind, h, copied, last, detail, steps>>

\* BFSTo without its first test
BFSToCallSearching(start, target) == [BFSStart(start) EXCEPT !.target = target]

\* BFSTo(start, target) up to the loop of the BFS it calls, or up to its
\* return when start == target
BFSToCall(start, target) ==
    IF start = target
    THEN [NoRun EXCEPT !.pc = "returned", !.alg = "BFS", !.start = start,
                       !.target = target, !.ret = SelfPath(start)]
    ELSE [BFSStart(start) EXCEPT !.target = target]

\* the loop of BFS or of Dijkstra run from r to its return on the graph s, every
\* range over a map taking the order of SliceOf
RECURSIVE Searched(_, _)
Searched(s, r) ==
    IF r.pc = "BFS" /\ r.queue # <<>>
    THEN LET adj == Adjacency(s, Head(r.queue))
         IN  Searched(adj.s, BFSRound(r, adj.m, SliceOf(DOMAIN adj.m)))
    ELSE IF r.pc = "Dijkstra" /\ r.queue # <<>>
    THEN LET adj == Adjacency(s, r.queue[MinIndex(r.queue, r.distances, 1, 1, Inf)])
         IN  Searched(adj.s, DijkstraRound(r, adj.m, SliceOf(DOMAIN adj.m)))
    ELSE IF r.pc \in {"BFS", "Dijkstra"}
    THEN [r EXCEPT !.pc = "searched"]
    ELSE r

\* g.BFSTo(start, target) as one step, in that order of enumeration
BFSTo(s, start, target) ==
    LET r == Searched(s, BFSToCall(start, target))
    IN  IF r.pc = "searched" THEN PathTo(r, target) ELSE r

\* g.DijkstraTo(start, target) as one step, in that order of enumeration
DijkstraTo(s, start, target) ==
    PathTo(Searched(s, [DijkstraStart(s, start, SliceOf(DOMAIN s.a))
                            EXCEPT !.target = target]), target)

\* g.BFSTo(start, target)
DoBFSTo ==
    /\ run.pc = "idle"
    /\ \E start \in PathNodes, target \in PathNodes :
           StepRun(BFSToCall(start, target), G)

\* one round of "for len(queue) > 0" in BFS, or the return of BFS
BFSLoop ==
    /\ run.pc = "BFS"
    /\ IF run.queue = <<>>
       THEN StepRun([run EXCEPT !.pc = "searched"], G)
       ELSE LET adj == Adjacency(G, Head(run.queue))
            IN  \E ns \in Orders(DOMAIN adj.m) : StepRun(BFSRound(run, adj.m, ns), adj.s)

\* BFSTo after its call of BFS
BFSToReturn ==
    /\ run.pc = "searched"
    /\ run.alg = "BFS"
    /\ StepRun(PathTo(run, run.target), G)

\* g.DijkstraTo(start, target) up to the loop of the Dijkstra it calls
DoDijkstraTo ==
    /\ run.pc = "idle"
    /\ \E start \in PathNodes, target \in PathNodes, order \in Orders(DOMAIN g) :
           StepRun([DijkstraStart(G, start, order) EXCEPT !.target = target], G)

\* one round of "for len(queue) > 0" in Dijkstra, or the return of Dijkstra
DijkstraLoop ==
    /\ run.pc = "Dijkstra"
    /\ IF run.queue = <<>>
       THEN StepRun([run EXCEPT !.pc = "searched"], G)
       ELSE LET adj == Adjacency(G, run.queue[MinIndex(run.queue, run.distances,
                                                        1, 1, Inf)])
            IN  \E ns \in Orders(DOMAIN adj.m) :
                    StepRun(DijkstraRound(run, adj.m, ns), adj.s)

\* DijkstraTo after its call of Dijkstra
DijkstraToReturn ==
    /\ run.pc = "searched"
    /\ run.alg = "Dijkstra"
    /\ StepRun(PathTo(run, run.target), G)

\* A call of BFSTo or DijkstraTo on the graph built.  A call of BFS(start) or
\* Dijkstra(start) by itself is such a call up to the state "searched".
NextPath ==
    \/ DoBFSTo
    \/ BFSLoop
    \/ BFSToReturn
    \/ DoDijkstraTo
    \/ DijkstraLoop
    \/ DijkstraToReturn

SpecPath == InitPath /\ [][NextPath]_vars

\* ------------------------------------------------------------------ maze solver
\* BFS, Dijkstra and DijkstraTo of src/main.go (src/unnamed/part_000 is the
\* same code over a generic key).  The store and AddNode and AddEdge of both
\* variants are those of the library.  A node is identified by a coordinate;
\* the zero Node, what a read of a missing key of `previous` gives, is one of
\* them: NoNode, the key 0.
MazeKeys == 0 .. (MaxPathKey - 1)

MazeNodes == {NewNode(k) : k \in MazeKeys}

\* readLines gives every edge the weight 1.0; the graphs searched here take
\* their weights from 0..MaxWeight
MazeEdges == {NewEdge(u, v, w) : u \in MazeNodes, v \in MazeNodes, w \in Weights}

\* the graph searched: as InitPath, over the nodes and edges of the maze
InitMaze ==
    /\ kind \in {"directed", "undirected"}
    /\ \E n \in 0 .. MaxBuild, k \in 0 .. MaxBuild :
           /\ n + k <= MaxBuild
           /\ \E es \in [1 .. n -> MazeEdges], ns \in [1 .. k -> MazeNodes] :
                  /\ es = SliceOf(Range(es))
                  /\ ns = SliceOf(Range(ns))
                  /\ LET s == AddNodesFrom(
                                  AddEdgesFrom(kind, newGraphData(EmptyMap), es), ns)
                     IN  g = s.a /\ heap = s.m
    /\ h = EmptyMap
    /\ copied = FALSE
    /\ last = NoCall
    /\ detail = FALSE
    /\ steps = 0
    /\ run = NoRun

\* return Path{}, 0 and return Path{}, 0, 0.0
MazeNoPath == Result(<<>>, 0, 0)

\* BFS(start, target) up to its loop, or up to its return when start == target
MazeBFSCall(start, target) ==
    IF start = target
    THEN [NoRun EXCEPT !.pc = "returned", !.alg = "MazeBFS", !.start = start,
                       !.target = target, !.ret = MazeNoPath]
    ELSE [NoRun EXCEPT !.pc = "MazeBFS", !.alg = "MazeBFS", !.start = start,
                       !.target = target, !.queue = <<start>>, !.visited = {start}]

\* the body of "for neighbor, _ := range g.Adjacencies[current]" in BFS
MazeBFSVisit(r, current, neighbor) ==
    IF neighbor \notin r.visited
    THEN [r EXCEPT !.visited = @ \cup {neighbor},
                   !.previous = MapSet(@, neighbor, current),
                   !.queue = Append(@, neighbor)]
    ELSE r

\* that range in the order ns
RECURSIVE MazeBFSRange(_, _, _)
MazeBFSRange(r, current, ns) ==
    IF ns = <<>> THEN r
    ELSE MazeBFSRange(MazeBFSVisit(r, current, Head(ns)), current, Tail(ns))

\* one round of "for len(queue) > 0" in BFS: the head of the queue is taken
\* off; the loop is left when it is target, else its inner map is ranged over
MazeBFSRound(r, ns) ==
    LET current == Head(r.queue)
        popped == [r EXCEPT !.queue = Tail(@), !.rounds = @ + 1,
                            !.order = Append(@, current)]
    IN  IF current = r.target
        THEN [popped EXCEPT !.pc = "searched"]
        ELSE MazeBFSRange(popped, current, ns)

\* "for current != start" of BFS and of DijkstraTo: the walk back from target.
\* It reads `previous` without a test for the key, so it goes on from the zero
\* Node where a node has no predecessor.  More than |previous| + 2 links meet
\* a node twice, and then the loop does not end.
MazeWalk(r) ==
    Walk(r.previous, r.start, r.target, <<r.target>>, Cardinality(DOMAIN r.previous) + 2)

\* BFS after its loop: no test that target was reached
MazeBFSPath(r) ==
    LET path == MazeWalk(r)
    IN  IF path = <<>>
        THEN [r EXCEPT !.pc = "diverged"]
        ELSE [r EXCEPT !.pc = "returned", !.ret = Result(Reverse(path), Len(path), 0)]

\* Dijkstra up to its loop: every node is queued at distance +Inf, start is at
\* distance 0 and has no predecessor
MazeDijkstraStart(s, start, order) ==
    [NoRun EXCEPT !.pc = "MazeDijkstra", !.alg = "MazeDijkstra", !.start = start,
                  !.queue = order,
                  !.distances = MapSet([n \in DOMAIN s.a |-> Inf], start, 0)]

\* "for i := range queue": min_distance stays +Inf, so min_index ends as the
\* last index whose node has a distance below +Inf, the first index when there
\* is none
RECURSIVE MazeMinIndex(_, _, _, _, _)
MazeMinIndex(queue, distances, i, min_index, min_distance) ==
    IF i > Len(queue) THEN min_index
    ELSE IF At(distances, queue[i], 0) < min_distance
         THEN MazeMinIndex(queue, distances, i + 1, i, min_distance)
         ELSE MazeMinIndex(queue, distances, i + 1, min_index, min_distance)

\* one round of "for len(queue) > 0" in Dijkstra; the relaxation is that of
\* the library
MazeDijkstraRound(r, m, ns) ==
    LET min_index == MazeMinIndex(r.queue, r.distances, 1, 1, Inf)
        current == r.queue[min_index]
        after == DijkstraRange([r EXCEPT !.queue = Delete(@, min_index)], current, m, ns)
    IN  [after EXCEPT !.rounds = @ + 1,
                      !.order = Append(@, current),
                      !.extracted = MapSet(@, current,
                                           [distance |-> r.distances[current],
                                            least |-> Least(r.queue, r.distances)])]

\* DijkstraTo after its call of Dijkstra
MazeDijkstraPath(r) ==
    IF r.target \notin DOMAIN r.previous
    THEN [r EXCEPT !.pc = "returned", !.ret = MazeNoPath]
    ELSE LET path == MazeWalk(r)
         IN  IF path = <<>>
             THEN [r EXCEPT !.pc = "diverged"]
             ELSE [r EXCEPT !.pc = "returned",
                            !.ret = Result(Reverse(path), Len(path),
                                           At(r.distances, r.target, 0))]

\* g.BFS(start, target)
DoMazeBFS ==
    /\ run.pc = "idle"
    /\ \E start \in MazeNodes, target \in MazeNodes :
           StepRun(MazeBFSCall(start, target), G)

MazeBFSLoop ==
    /\ run.pc = "MazeBFS"
    /\ IF run.queue = <<>>
       THEN StepRun([run EXCEPT !.pc = "searched"], G)
       ELSE LET adj == Adjacency(G, Head(run.queue))
            IN  \E ns \in Orders(DOMAIN adj.m) : StepRun(MazeBFSRound(run, ns), adj.s)

MazeBFSReturn ==
    /\ run.pc = "searched"
    /\ run.alg = "MazeBFS"
    /\ StepRun(MazeBFSPath(run), G)

\* g.DijkstraTo(start, target)
DoMazeDijkstraTo ==
    /\ run.pc = "idle"
    /\ \E start \in MazeNodes, target \in MazeNodes, order \in Orders(DOMAIN g) :
           StepRun([MazeDijkstraStart(G, start, order) EXCEPT !.target = target], G)

MazeDijkstraLoop ==
    /\ run.pc = "MazeDijkstra"
    /\ IF run.queue = <<>>
       THEN StepRun([run EXCEPT !.pc = "searched"], G)
       ELSE LET adj == Adjacency(G, run.queue[MazeMinIndex(run.queue, run.distances,
                                                            1, 1, Inf)])
            IN  \E ns \in Orders(DOMAIN adj.m) :
                    StepRun(MazeDijkstraRound(run, adj.m, ns), adj.s)

MazeDijkstraToReturn ==
    /\ run.pc = "searched"
    /\ run.alg = "MazeDijkstra"
    /\ StepRun(MazeDijkstraPath(run), G)

\* main: one call of BFS or of DijkstraTo on the graph read
NextMaze ==
    \/ DoMazeBFS
    \/ MazeBFSLoop
    \/ MazeBFSReturn
    \/ DoMazeDijkstraTo
    \/ MazeDijkstraLoop
    \/ MazeDijkstraToReturn

SpecMaze == InitMaze /\ [][NextMaze]_vars

\* ------------------------------------------------------------------ properties
\* the entry u->v is the same in s1 and s2: present in both with one weight,
\* or absent in both
SameEntry(s1, s2, u, v) ==
    /\ HasEdge(s1, u, v) = HasEdge(s2, u, v)
    /\ HasEdge(s1, u, v) => WeightOf(s1, u, v) = WeightOf(s2, u, v)

\* s1 and s2 have the same nodes and the same entries
SameGraph(s1, s2) ==
    /\ \A n \in NodeSet : HasNode(s1, n) = HasNode(s2, n)
    /\ \A u \in NodeSet, v \in NodeSet : SameEntry(s1, s2, u, v)

\* C1: on an UndirectedGraph, in every state the operations of the Graph
\* interface reach, HasEdge(u,v) = HasEdge(v,u) for all u and v, and the two
\* entries of a stored edge carry the same weight.
C1_UndirectedSymmetry ==
    kind = "undirected" =>
        \A u \in NodeSet, v \in NodeSet :
            /\ HasEdge(G, u, v) = HasEdge(G, v, u)
            /\ HasEdge(G, u, v) => WeightOf(G, u, v) = WeightOf(G, v, u)

\* an undirected edge between two nodes has just been re-added, from its other end
C1_Witness ==
    /\ kind = "undirected"
    /\ last.op = "AddEdge"
    /\ last.hit
    /\ last.u # last.v
    /\ HasEdge(G, last.v, last.u)
    /\ WeightOf(G, last.v, last.u) = last.w

\* C2: after RemoveNode(n), on either variant, HasNode(n) is false, no node has
\* n among its successors or predecessors, and every node and entry that does
\* not involve n is as it was.
C2_RemoveNodeComplete ==
    [][last'.op = "RemoveNode" =>
        LET n == last'.u IN
            /\ ~HasNode(G', n)
            /\ \A x \in NodeSet :
                /\ n \notin Successors(G', x)
                /\ n \notin Predecessors(G', x)
                /\ x \notin Successors(G', n)
                /\ ~HasEdge(G', x, n)
                /\ ~HasEdge(G', n, x)
            /\ \A x \in NodeSet \ {n} : HasNode(G', x) = HasNode(G, x)
            /\ \A x \in NodeSet \ {n}, y \in NodeSet \ {n} : SameEntry(G', G, x, y)
    ]_vars

\* a node that had entries was removed, and entries between other nodes remain
C2_Witness ==
    /\ last.op = "RemoveNode"
    /\ last.hit
    /\ NumberOfEdges(G) < last.edges
    /\ NumberOfEdges(G) > 0

\* C3: right after h := g.Copy(), h has the node keys of g, isolated nodes
\* included, and an entry u->v exactly when g has it, with the same weight.
C3_CopyEqual ==
    last.op = "Copy" =>
        /\ Nodes(H) = Nodes(G)
        /\ \A u \in NodeSet, v \in NodeSet : SameEntry(H, G, u, v)
        /\ NumberOfNodes(H) = NumberOfNodes(G)

\* a graph with an edge and an isolated node has just been copied
C3_Witness ==
    /\ last.op = "Copy"
    /\ copied
    /\ \E n \in Nodes(G) : Successors(G, n) = {} /\ Predecessors(G, n) = {}
    /\ NumberOfEdges(G) > 0

\* C4: once h := g.Copy() has been made, a mutation of g leaves the nodes,
\* entries and weights of h as they were, and a mutation of h leaves those of g.
C4_CopyIndependent ==
    [][(copied /\ last'.op # "Copy") =>
        /\ last'.on = "g" => (View(H') = View(H) /\ SameGraph(H', H))
        /\ last'.on = "h" => (View(G') = View(G) /\ SameGraph(G', G))
    ]_vars

\* the graph was copied with an edge in it, and then one store was changed
C4_Witness ==
    /\ copied
    /\ last.op \in {"AddEdge", "SetWeight", "RemoveNode", "RemoveEdge", "Clear"}
    /\ NumberOfEdges(H) > 0
    /\ ~SameGraph(G, H)

\* C5: on a DirectedGraph, AddEdge(u,v,w) with u # v stores u->v = w and leaves
\* the reverse entry v->u as it was, present or absent; RemoveEdge(u,v) removes
\* u->v and leaves every other entry, v->u among them, as it was.
C5_DirectedOneWay ==
    [][kind = "directed" =>
        /\ (last'.op = "AddEdge" /\ last'.u # last'.v) =>
            /\ HasEdge(G', last'.u, last'.v)
            /\ WeightOf(G', last'.u, last'.v) = last'.w
            /\ SameEntry(G', G, last'.v, last'.u)
        /\ last'.op = "RemoveEdge" =>
            /\ ~HasEdge(G', last'.u, last'.v)
            /\ \A x \in NodeSet, y \in NodeSet :
                   <<x, y>> # <<last'.u, last'.v>> => SameEntry(G', G, x, y)
    ]_vars

\* a directed edge was added while the reverse entry was absent
C5_Witness ==
    /\ kind = "directed"
    /\ last.op = "AddEdge"
    /\ last.u # last.v
    /\ HasEdge(G, last.u, last.v)
    /\ ~HasEdge(G, last.v, last.u)

\* C6: AddEdge(u,v,w2) when u->v is stored leaves NumberOfEdges and
\* NumberOfNodes as they were, makes the weight of u->v (and of v->u on an
\* undirected graph) w2, and leaves every other entry as it was.
C6_ReAddOverwrites ==
    [][(last'.op = "AddEdge" /\ last'.hit) =>
        LET u == last'.u
            v == last'.v
        IN  /\ NumberOfEdges(G') = NumberOfEdges(G)
            /\ NumberOfNodes(G') = NumberOfNodes(G)
            /\ Nodes(G') = Nodes(G)
            /\ HasEdge(G', u, v) /\ WeightOf(G', u, v) = last'.w
            /\ kind = "undirected" =>
                   (HasEdge(G', v, u) /\ WeightOf(G', v, u) = last'.w)
            /\ \A x \in NodeSet, y \in NodeSet :
                   (/\ <<x, y>> # <<u, v>>
                    /\ (kind = "undirected" => <<x, y>> # <<v, u>>))
                   => SameEntry(G', G, x, y)
    ]_vars

\* an edge that is stored with another entry beside it was added again
C6_Witness ==
    /\ last.op = "AddEdge"
    /\ last.hit
    /\ last.edges = NumberOfEdges(G)
    /\ \E x \in NodeSet, y \in NodeSet :
           /\ HasEdge(G, x, y)
           /\ WeightOf(G, x, y) # last.w

C8_EndpointClosure ==
    [][/\ \A u \in NodeSet, v \in NodeSet :
            HasEdge(G', u, v) => (HasNode(G', u) /\ HasNode(G', v))
       /\ last'.op = "AddEdge" =>
            LET u == last'.u
                v == last'.v
            IN  /\ HasNode(G', u) /\ HasNode(G', v)
                /\ Nodes(G') = Nodes(G) \cup {u, v}
                /\ ~HasNode(G, u) =>
                       Successors(G', u) = {v}
                /\ (~HasNode(G, v) /\ v # u) =>
                       Successors(G', v) = IF kind = "undirected" THEN {u} ELSE {}
    ]_vars

\* an edge was added between two nodes that were both missing
C8_Witness ==
    /\ last.op = "AddEdge"
    /\ last.u # last.v
    /\ NumberOfNodes(G) = 2
    /\ last.edges = 0
    /\ NumberOfEdges(G) = IF kind = "undirected" THEN 2 ELSE 1

\* C9: RemoveNode(n) of a node that is not in the graph and RemoveEdge(u,v)
\* when u->v is not stored, u or v being a node or not, leave the nodes,
\* entries and weights as they were.
C9_RemoveAbsentNoOp ==
    [][((last'.op = "RemoveNode" /\ ~last'.hit) \/ (last'.op = "RemoveEdge" /\ ~last'.hit)) =>
        /\ View(G') = View(G)
        /\ SameGraph(G', G)
    ]_vars

\* an edge was asked to be removed from a node that is missing, beside a stored edge
C9_Witness ==
    /\ last.op = "RemoveEdge"
    /\ ~last.hit
    /\ ~HasNode(G, last.u)
    /\ NumberOfEdges(G) > 0

\* C10: on an UndirectedGraph, AddEdge(u,u,w) stores the one entry u->u; when u
\* had no other entry its adjacency has 1 entry, NumberOfEdges counts the loop
\* once and Degree(u) = 1.
C10_SelfLoopOnce ==
    [][(kind = "undirected" /\ last'.op = "AddEdge" /\ last'.u = last'.v) =>
        LET u == last'.u
        IN  /\ HasEdge(G', u, u) /\ WeightOf(G', u, u) = last'.w
            /\ \A x \in NodeSet, y \in NodeSet :
                   <<x, y>> # <<u, u>> => SameEntry(G', G, x, y)
            /\ NumberOfEdges(G') = NumberOfEdges(G) + (IF HasEdge(G, u, u) THEN 0 ELSE 1)
            /\ Successors(G, u) \subseteq {u} =>
                   /\ Cardinality(DOMAIN View(G')[u]) = 1
                   /\ UndirectedDegree(G', u) = 1
    ]_vars

\* a self-loop was added to an empty undirected graph
C10_Witness ==
    /\ kind = "undirected"
    /\ last.op = "AddEdge"
    /\ last.u = last.v
    /\ last.edges = 0
    /\ NumberOfEdges(G) = 1
    /\ UndirectedDegree(G, last.u) = 1

\* the entries stored in s, as ordered pairs
Entries(s) == {p \in NodeSet \X NodeSet : HasEdge(s, p[1], p[2])}

\* whether a slice lists no element twice
NoDuplicates(xs) == \A i \in 1 .. Len(xs), j \in 1 .. Len(xs) : xs[i] = xs[j] => i = j

\* C11: on a DirectedGraph, for every node n, Degree(n) = InDegree(n) +
\* OutDegree(n), where OutDegree counts the entries n->x and InDegree the nodes
\* m with an entry m->n; a node whose only edge is a self-loop has Degree 2.
C11_DirectedDegree ==
    kind = "directed" =>
        \A n \in NodeSet :
            /\ OutDegree(G, n) = Cardinality({p \in Entries(G) : p[1] = n})
            /\ InDegree(G, n) = Cardinality({p \in Entries(G) : p[2] = n})
            /\ Degree(G, n) = InDegree(G, n) + OutDegree(G, n)
            /\ {p \in Entries(G) : n \in {p[1], p[2]}} = {<<n, n>>} => Degree(G, n) = 2

\* a directed graph where one node has a self-loop only and another node has
\* an edge of its own
C11_Witness ==
    /\ kind = "directed"
    /\ \E n \in NodeSet, m \in NodeSet :
           /\ {p \in Entries(G) : n \in {p[1], p[2]}} = {<<n, n>>}
           /\ Degree(G, n) = 2
           /\ m # n /\ OutDegree(G, m) = 1 /\ InDegree(G, m) = 1

\* C12: on an UndirectedGraph, in every reachable state and for every node n,
\* Degree(n), InDegree(n) and OutDegree(n) all equal the number of distinct
\* neighbours of n, and Neighbors(n) and Predecessors(n) list the same nodes as
\* Successors(n), none of them twice.
C12_UndirectedDegree ==
    kind = "undirected" =>
        \A n \in NodeSet :
            LET distinct == {x \in NodeSet : HasEdge(G, n, x) \/ HasEdge(G, x, n)}
            IN  /\ UndirectedDegree(G, n) = Cardinality(distinct)
                /\ InDegree(G, n) = Cardinality(distinct)
                /\ OutDegree(G, n) = Cardinality(distinct)
                /\ Range(UndirectedNeighborsSlice(G, n)) = Successors(G, n)
                /\ Range(UndirectedPredecessors(G, n)) = Successors(G, n)
                /\ NoDuplicates(UndirectedNeighborsSlice(G, n))
                /\ NoDuplicates(UndirectedPredecessors(G, n))

\* an undirected graph where a node has a self-loop and an edge to another node
C12_Witness ==
    /\ kind = "undirected"
    /\ \E n \in NodeSet, m \in NodeSet :
           /\ m # n
           /\ HasEdge(G, n, n) /\ HasEdge(G, n, m)
           /\ UndirectedDegree(G, n) = 2
           /\ Len(UndirectedNeighborsSlice(G, n)) = 2

\* C13: NumberOfEdges is the number of stored entries: on a DirectedGraph one
\* per ordered pair added and not removed since, on an UndirectedGraph two per
\* edge between distinct nodes and one per self-loop, in every reachable state.
C13_NumberOfEdges ==
    /\ NumberOfEdges(G) = Cardinality(Entries(G))
    /\ kind = "directed" =>
           /\ last.op = "AddEdge" =>
                  NumberOfEdges(G) = last.edges + (IF last.hit THEN 0 ELSE 1)
           /\ last.op = "RemoveEdge" =>
                  NumberOfEdges(G) = last.edges - (IF last.hit THEN 1 ELSE 0)
    /\ kind = "undirected" =>
           NumberOfEdges(G) =
               2 * Cardinality({e \in SUBSET NodeSet :
                                   \E u \in NodeSet, v \in NodeSet :
                                       u # v /\ e = {u, v} /\ HasEdge(G, u, v)})
               + Cardinality({u \in NodeSet : HasEdge(G, u, u)})

\* an undirected graph with an edge between two nodes and a self-loop, counted
\* as three entries
C13_Witness ==
    /\ kind = "undirected"
    /\ NumberOfEdges(G) = 3
    /\ \E u \in NodeSet, v \in NodeSet : u # v /\ HasEdge(G, u, v) /\ HasEdge(G, v, v)

\* the slices of one to MaxPathKey nodes
NodeSeqs == UNION {[1 .. n -> PathNodes] : n \in 1 .. MaxPathKey}

\* p leads from a to b along stored entries
Leads(s, p, a, b) ==
    /\ Len(p) >= 1
    /\ p[1] = a
    /\ p[Len(p)] = b
    /\ \A i \in 1 .. (Len(p) - 1) : HasEdge(s, p[i], p[i + 1])

\* the paths of stored entries from a to b over at most MaxPathKey nodes
PathsBetween(s, a, b) == {p \in NodeSeqs : Leads(s, p, a, b)}

Reachable(s, a, b) == PathsBetween(s, a, b) # {}

\* the sum of the weights of the entries along p
RECURSIVE PathWeight(_, _)
PathWeight(s, p) ==
    IF Len(p) <= 1 THEN 0 ELSE WeightOf(s, p[1], p[2]) + PathWeight(s, Tail(p))

\* the least total weight of a path from a to b
MinCost(s, a, b) ==
    CHOOSE c \in {PathWeight(s, p) : p \in PathsBetween(s, a, b)} :
        \A q \in PathsBetween(s, a, b) : c <= PathWeight(s, q)

NonNegative(s) == \A e \in Edges(s) : e.weight >= 0

\* the call has ended, by a return or in a loop that does not end
Ended == run.pc \in {"returned", "diverged"}

\* C14: for start != target with target reachable, BFSTo returns a path that
\* begins with start, ends with target, follows stored entries and has the
\* least number of hops; the length returned is the number of nodes on the
\* path and the distance returned is that length minus 1.
C14_BFSShortest ==
    (run.alg = "BFS" /\ Ended /\ run.start # run.target
        /\ Reachable(G, run.start, run.target)) =>
        /\ run.pc = "returned"
        /\ Leads(G, run.ret.path, run.start, run.target)
        /\ \A q \in PathsBetween(G, run.start, run.target) : Len(run.ret.path) <= Len(q)
        /\ run.ret.length = Len(run.ret.path)
        /\ run.ret.cost = run.ret.length - 1

\* BFSTo returned a path of two nodes where a path over three distinct nodes
\* is stored too
C14_Witness ==
    /\ run.alg = "BFS"
    /\ run.pc = "returned"
    /\ run.start # run.target
    /\ run.ret.length = 2
    /\ \E q \in PathsBetween(G, run.start, run.target) : Len(q) = 3 /\ NoDuplicates(q)

\* C15: for start != target, BFSTo and DijkstraTo return the sentinel (empty
\* path, length 0, cost +Inf) exactly when no path of stored entries leads
\* from start to target, which includes a start or a target that is no node.
C15_UnreachableSentinel ==
    (Ended /\ run.start # run.target) =>
        ((run.pc = "returned" /\ run.ret = Unreachable)
            <=> ~Reachable(G, run.start, run.target))

\* DijkstraTo returned the sentinel for a start that is no node of a graph
\* that holds the target
C15_Witness ==
    /\ run.alg = "Dijkstra"
    /\ run.pc = "returned"
    /\ run.ret = Unreachable
    /\ ~HasNode(G, run.start)
    /\ HasNode(G, run.target)
    /\ run.ret.cost = Inf

\* C16: with no negative weight, when Dijkstra(start) returns every node
\* reachable from start has the least total weight of a path from start as its
\* distance, start has distance 0 and every other node has +Inf.
C16_DijkstraDistances ==
    (run.alg = "Dijkstra" /\ run.pc = "searched" /\ NonNegative(G)) =>
        /\ run.distances[run.start] = 0
        /\ \A n \in DOMAIN g :
               run.distances[n] =
                   IF Reachable(G, run.start, n) THEN MinCost(G, run.start, n) ELSE Inf

\* Dijkstra returned a distance below the weight of the entry from start to
\* that node, next to a node it cannot reach
C16_Witness ==
    /\ run.alg = "Dijkstra"
    /\ NonNegative(G)
    /\ run.pc = "searched"
    /\ \E n \in DOMAIN g :
           /\ HasEdge(G, run.start, n)
           /\ run.distances[n] < WeightOf(G, run.start, n)
    /\ \E n \in DOMAIN g : run.distances[n] = Inf

\* C17: with no negative weight and a reachable target, DijkstraTo returns a
\* path of stored entries from start to target whose weights add up to the
\* cost returned, that cost is the least of any path, and the length returned
\* is the number of nodes on the path.
C17_DijkstraPath ==
    (run.alg = "Dijkstra" /\ Ended /\ NonNegative(G)
        /\ Reachable(G, run.start, run.target)) =>
        /\ run.pc = "returned"
        /\ Leads(G, run.ret.path, run.start, run.target)
        /\ PathWeight(G, run.ret.path) = run.ret.cost
        /\ run.ret.cost = MinCost(G, run.start, run.target)
        /\ run.ret.length = Len(run.ret.path)

\* DijkstraTo returned a path over three nodes that is cheaper than the entry
\* from start to target
C17_Witness ==
    /\ run.alg = "Dijkstra"
    /\ NonNegative(G)
    /\ run.pc = "returned"
    /\ run.ret.length = 3
    /\ HasEdge(G, run.start, run.target)
    /\ run.ret.cost < WeightOf(G, run.start, run.target)

\* C18: with no negative weight, DijkstraTo(start, start) returns the path
\* [start], length 1 and cost 0 for every start, with or without self-loops and
\* cycles through start: start is its own predecessor at distance 0 from the
\* beginning and no relaxation changes that.
C18_DijkstraSelf ==
    (run.alg = "Dijkstra" /\ NonNegative(G)) =>
        /\ At(run.previous, run.start, NoNode) = run.start
        /\ At(run.distances, run.start, Inf) = 0
        /\ (Ended /\ run.target = run.start) =>
               (run.pc = "returned" /\ run.ret = SelfPath(run.start))

\* DijkstraTo(start, start) returned where start has a self-loop and lies on a
\* cycle through another node, all of weight 0
C18_Witness ==
    /\ run.alg = "Dijkstra"
    /\ NonNegative(G)
    /\ run.pc = "returned"
    /\ run.target = run.start
    /\ HasEdge(G, run.start, run.start)
    /\ \E n \in PathNodes \ {run.start} :
           /\ HasEdge(G, run.start, n) /\ HasEdge(G, n, run.start)
           /\ WeightOf(G, run.start, n) = 0 /\ WeightOf(G, n, run.start) = 0
    /\ run.ret.length = 1

\* C19: BFSTo(start, start) returns the path [start], length 1 and distance 0
\* for every start, node of the graph or not, and does not run the search.
C19_BFSSelf ==
    (run.alg = "BFS" /\ run.target = run.start) =>
        /\ run.pc = "returned"
        /\ run.ret = SelfPath(run.start)
        /\ run.visited = {}
        /\ run.queue = <<>>
        /\ run.distances = EmptyMap
        /\ run.previous = EmptyMap

\* BFSTo(start, start) returned for a start that is no node of a graph with
\* nodes
C19_Witness ==
    /\ run.alg = "BFS"
    /\ run.pc = "returned"
    /\ run.target = run.start
    /\ ~HasNode(G, run.start)
    /\ g # EmptyMap
    /\ run.ret.path = <<run.start>>

\* C20: BFS, BFSTo, Dijkstra and DijkstraTo leave the graph as it was: the
\* nodes, the entries and the weights are the same after every step of a call,
\* also when start or target is no node.
C20_SearchReadOnly ==
    [][run' # run => (g' = g /\ heap' = heap /\ View(G') = View(G))]_vars

\* a BFS has taken the neighbors of a start that is no node, in a graph with
\* entries
C20_Witness ==
    /\ run.alg = "BFS"
    /\ run.pc = "searched"
    /\ ~HasNode(G, run.start)
    /\ \E u \in DOMAIN g : Successors(G, u) # {}

\* C21: on every graph with no negative weight BFSTo and DijkstraTo end: BFS
\* enqueues each node at most once, takes one node off the queue per round and
\* returns when the queue is empty; Dijkstra extracts each node of the graph
\* exactly once; and the walk back from target follows at most
\* NumberOfNodes - 1 predecessor links (none when start is no node).
C21_Terminates ==
    NonNegative(G) =>
        /\ run.pc # "diverged"
        /\ run.alg = "BFS" =>
               /\ \A n \in DOMAIN run.enqueued : run.enqueued[n] = 1
               /\ run.rounds + Len(run.queue) = Cardinality(DOMAIN run.enqueued)
               /\ run.rounds <= NumberOfNodes(G) + 1
               /\ run.pc \in {"searched", "returned"} => run.queue = <<>>
        /\ run.alg = "Dijkstra" =>
               /\ run.rounds = Cardinality(DOMAIN run.extracted)
               /\ DOMAIN run.extracted \cup Range(run.queue) = DOMAIN g
               /\ DOMAIN run.extracted \cap Range(run.queue) = {}
               /\ NoDuplicates(run.queue)
               /\ run.pc \in {"searched", "returned"} =>
                      (run.queue = <<>> /\ run.rounds = NumberOfNodes(G))
        /\ (run.pc = "returned" /\ run.ret.path # <<>>) =>
               Len(run.ret.path) - 1 <=
                   (IF HasNode(G, run.start) THEN NumberOfNodes(G) - 1 ELSE 0)

\* DijkstraTo returned a path over all three nodes of a graph with a cycle
C21_Witness ==
    /\ NonNegative(G)
    /\ run.alg = "Dijkstra"
    /\ run.pc = "returned"
    /\ NumberOfNodes(G) = 3
    /\ run.rounds = 3
    /\ Len(run.ret.path) = 3
    /\ HasEdge(G, run.target, run.start)

\* C22: in Dijkstra with no negative weight, every extraction takes out of the
\* queue a node whose distance is the least of the nodes then in the queue, and
\* the distance of a node is not lowered once the node has been extracted.
C22_ExtractMinimal ==
    (run.alg = "Dijkstra" /\ NonNegative(G)) =>
        \A n \in DOMAIN run.extracted :
            /\ run.extracted[n].distance = run.extracted[n].least
            /\ run.distances[n] = run.extracted[n].distance

\* Dijkstra has extracted two nodes at different finite distances, the nearer
\* one reached by an entry that lowered its distance
C22_Witness ==
    /\ run.alg = "Dijkstra"
    /\ NonNegative(G)
    /\ run.pc = "searched"
    /\ \E n \in DOMAIN run.extracted, m \in DOMAIN run.extracted :
           /\ run.extracted[n].distance < run.extracted[m].distance
           /\ run.extracted[m].distance < Inf
           /\ HasEdge(G, run.start, n)
           /\ run.extracted[n].distance < WeightOf(G, run.start, n)

\* C23: when BFS(start) returns, start is its own predecessor at distance 0; a
\* node has a predecessor iff it has a distance iff a path of stored entries
\* leads to it from start; every other node n reached has a stored entry
\* predecessor(n)->n and distance(n) = distance(predecessor(n)) + 1; and the
\* predecessor links lead from n to start without meeting a node twice.
C23_BFSMaps ==
    (run.alg = "BFS" /\ run.pc = "searched") =>
        /\ At(run.previous, run.start, NoNode) = run.start
        /\ At(run.distances, run.start, Inf) = 0
        /\ DOMAIN run.previous = DOMAIN run.distances
        /\ DOMAIN run.previous = {n \in PathNodes : Reachable(G, run.start, n)}
        /\ \A n \in DOMAIN run.previous \ {run.start} :
               /\ HasEdge(G, At(run.previous, n, NoNode), n)
               /\ run.distances[n] = At(run.distances, run.previous[n], Inf) + 1
               /\ LET back == Walk(run.previous, run.start, n, <<n>>,
                                   Cardinality(DOMAIN run.previous) + 1)
                  IN  back # <<>> /\ NoDuplicates(back)

\* BFS returned with a node at distance 2 in a graph where that node has an
\* entry back to start
C23_Witness ==
    /\ run.alg = "BFS"
    /\ run.pc = "searched"
    /\ \E n \in DOMAIN run.distances :
           run.distances[n] = 2 /\ HasEdge(G, n, run.start)

\* C24: on a graph with no negative weight, the cost BFSTo and DijkstraTo
\* return for a start and a target, and whether they return the unreachable
\* result, do not depend on the order in which the maps are ranged over and
\* the queue is filled: they are those of the run that takes every range in
\* the order of SliceOf.
C24_OrderIndependent ==
    (run.pc = "returned" /\ NonNegative(G)) =>
        LET ref == IF run.alg = "BFS" THEN BFSTo(G, run.start, run.target)
                   ELSE DijkstraTo(G, run.start, run.target)
        IN  /\ ref.pc = "returned"
            /\ run.ret.cost = ref.ret.cost
            /\ (run.ret = Unreachable) = (ref.ret = Unreachable)

\* DijkstraTo returned a path of one entry after extracting the three nodes in
\* another order than the run that ranges in the order of SliceOf
C24_Witness ==
    /\ run.pc = "returned"
    /\ run.alg = "Dijkstra"
    /\ NonNegative(G)
    /\ Len(run.order) = 3
    /\ Len(run.ret.path) = 2
    /\ run.ret.cost > 0
    /\ run.order # DijkstraTo(G, run.start, run.target).order

\* C29: on a graph whose weights are all 1, BFSTo and DijkstraTo agree for
\* every start and target: both return the unreachable result or neither, the
\* costs are equal, the lengths are equal, and the length of a path found is
\* its cost + 1.
C29_UnitWeightsAgree ==
    (run.pc = "returned" /\ \A e \in Edges(G) : e.weight = 1) =>
        LET other == IF run.alg = "BFS" THEN DijkstraTo(G, run.start, run.target)
                     ELSE BFSTo(G, run.start, run.target)
        IN  /\ other.pc = "returned"
            /\ (run.ret = Unreachable) = (other.ret = Unreachable)
            /\ run.ret.cost = other.ret.cost
            /\ run.ret.length = other.ret.length
            /\ run.ret # Unreachable => run.ret.length = run.ret.cost + 1

\* BFSTo returned a path of two entries of weight 1 in a graph that has an
\* entry back from target to start
C29_Witness ==
    /\ run.pc = "returned"
    /\ run.alg = "BFS"
    /\ Edges(G) # {}
    /\ \A e \in Edges(G) : e.weight = 1
    /\ run.ret.length = 3
    /\ run.ret.cost = 2
    /\ HasEdge(G, run.target, run.start)

\* the predecessor links of the search in progress lead from every node that
\* has one to start, over at most NumberOfNodes links and no node twice, and
\* the walk back of DijkstraTo has not run into a loop without end
LinksLeadToStart ==
    /\ run.pc # "diverged"
    /\ \A t \in DOMAIN run.previous :
           LET back == Walk(run.previous, run.start, t, <<t>>, NumberOfNodes(G))
           IN  back # <<>> /\ NoDuplicates(back)

\* C28 as stated: DijkstraTo ends on every graph, negative weights included:
\* the predecessor links of Dijkstra form no cycle that leaves start out, so
\* the walk from a target with a predecessor reaches start within
\* NumberOfNodes links.
C28_TerminatesAnyWeights == run.alg = "Dijkstra" => LinksLeadToStart

\* C28, amended: DijkstraTo ends on every graph with no negative weight: the
\* predecessor links of Dijkstra form no cycle that leaves start out, so the
\* walk from a target with a predecessor reaches start within NumberOfNodes
\* links.
C28_TerminatesNonNegative ==
    (run.alg = "Dijkstra" /\ NonNegative(G)) => LinksLeadToStart

\* DijkstraTo returned a path of two entries to a target that has an entry
\* back to the node before it, a cycle that leaves start out
C28_Witness ==
    /\ run.alg = "Dijkstra"
    /\ run.pc = "returned"
    /\ NonNegative(G)
    /\ Len(run.ret.path) = 3
    /\ HasEdge(G, run.target, run.ret.path[2])

\* every entry of s has its mirror entry, of the same weight
Symmetric(s) ==
    \A u \in NodeSet, v \in NodeSet :
        /\ HasEdge(s, u, v) = HasEdge(s, v, u)
        /\ HasEdge(s, u, v) => WeightOf(s, u, v) = WeightOf(s, v, u)

\* C30: right after h := g.Copy() on an UndirectedGraph g that holds its edges
\* both ways, h is a plain store: for every node n, h.Degree(n) is
\* h.InDegree(n) + h.OutDegree(n) and twice g.Degree(n), h.OutDegree(n) is
\* g.Degree(n), and h holds its edges both ways with equal weights.
C30_UndirectedCopyPlain ==
    (kind = "undirected" /\ last.op = "Copy" /\ Symmetric(G)) =>
        /\ \A n \in NodeSet :
               /\ Degree(H, n) = InDegree(H, n) + OutDegree(H, n)
               /\ Degree(H, n) = 2 * UndirectedDegree(G, n)
               /\ OutDegree(H, n) = UndirectedDegree(G, n)
        /\ Symmetric(H)

\* an UndirectedGraph with a node of degree 2 has just been copied
C30_Witness ==
    /\ kind = "undirected"
    /\ last.op = "Copy"
    /\ copied
    /\ Symmetric(G)
    /\ \E n \in Nodes(G) : UndirectedDegree(G, n) = 2 /\ Degree(H, n) = 4

\* C27: on the store of src/graph.go, Predecessors(n) yields the nodes that
\* hold an entry to n, each once and no other node: the nodes that
\* Predecessors(n) of src/graph/graph.go returns.
C27_IteratorPredecessors ==
    \A n \in NodeSet :
        /\ Range(PredecessorsSeq(G, n)) = Predecessors(G, n)
        /\ NoDuplicates(PredecessorsSeq(G, n))
        /\ Range(PredecessorsSeq(G, n)) = Range(PredecessorsSlice(G, n))

\* paths of stored entries over the nodes of the maze
MazeNodeSeqs == UNION {[1 .. n -> MazeNodes] : n \in 1 .. MaxPathKey}

MazePathsBetween(s, a, b) == {p \in MazeNodeSeqs : Leads(s, p, a, b)}

MazeReachable(s, a, b) == MazePathsBetween(s, a, b) # {}

MazeMinCost(s, a, b) ==
    CHOOSE c \in {PathWeight(s, p) : p \in MazePathsBetween(s, a, b)} :
        \A q \in MazePathsBetween(s, a, b) : c <= PathWeight(s, q)

\* C25: in the Dijkstra of the maze solver, on a graph with no negative weight
\* and for every order of the queue, every extraction takes out a queued node
\* of least distance, and the distance returned for every node a path leads
\* to is the least total weight of such a path.
C25_MazeDijkstra ==
    (run.alg = "MazeDijkstra" /\ NonNegative(G)) =>
        /\ \A n \in DOMAIN run.extracted :
               run.extracted[n].distance = run.extracted[n].least
        /\ run.pc \in {"searched", "returned"} =>
               \A n \in MazeNodes :
                   MazeReachable(G, run.start, n) =>
                       At(run.distances, n, Inf) = MazeMinCost(G, run.start, n)

\* C26: BFS(start, target) of the maze solver ends, and returns the empty path
\* and the length 0, whenever no path leads from start to target.
C26_MazeBFSUnreachable ==
    (run.alg = "MazeBFS" /\ Ended /\ ~MazeReachable(G, run.start, run.target)) =>
        /\ run.pc = "returned"
        /\ run.ret.path = <<>>
        /\ run.ret.length = 0

====
